---------------------------- MODULE Spec2Model ----------------------------
(***************************************************************************)
(* Model of scripts/init_db.py (the CSV -> Neo4j loading script) and of    *)
(* scripts/neo4j_driver.py (Neo4jHandler).                                 *)
(*                                                                         *)
(* Strings are sequences of one-character strings, so that str.strip() is  *)
(* computed and not assumed.  A cell of a DataFrame is one of              *)
(*   [t |-> "nan"]            an absent value (NaN),                       *)
(*   [t |-> "str", v |-> s]   a string,                                    *)
(*   [t |-> "num", n |-> k]   a number.                                    *)
(* A DataFrame is [columns, dtypes, rows]: the column names in order, the  *)
(* dtype of each column ("object" or "number") and the rows in order, each *)
(* a function from the column names to cells.                              *)
(***************************************************************************)
EXTENDS Integers, Sequences, FiniteSets, TLC

(***************************************************************************)
(* Bounds of the model.                                                    *)
(***************************************************************************)
MaxLicenseRows == 1
MaxFieldRows == 2
MaxWellRows == 2
MaxExtractRows == 2
MaxLoaderOps == 2

(***************************************************************************)
(* Cells and strings.                                                      *)
(***************************************************************************)
NaN == [t |-> "nan"]
Str(s) == [t |-> "str", v |-> s]
Num(k) == [t |-> "num", n |-> k]

IsStr(c) == c.t = "str"
IsNaN(c) == c.t = "nan"

\* init_db.py line 16: MISSING_VALUE = ""
MISSING_VALUE == Str(<< >>)

\* init_db.py line 26: the values fillna substitutes for absent cells.
FILL_STRING == Str(<<"m", "i", "s", "s", "i", "n", "g">>)
FILL_NUMBER == Num(0 - 999)

Whitespace == {" ", "\t", "\n"}

RECURSIVE LStrip(_)
LStrip(s) ==
    IF s # << >> /\ Head(s) \in Whitespace THEN LStrip(Tail(s)) ELSE s

RECURSIVE RStrip(_)
RStrip(s) ==
    IF s # << >> /\ s[Len(s)] \in Whitespace
    THEN RStrip(SubSeq(s, 1, Len(s) - 1))
    ELSE s

\* str.strip() of one string.
Strip(s) == RStrip(LStrip(s))

\* Series.str.strip() on one element: a non-string element gives NaN.
StrStripCell(c) == IF IsStr(c) THEN Str(Strip(c.v)) ELSE NaN

(***************************************************************************)
(* Sequence helpers.                                                       *)
(***************************************************************************)
Range(s) == {s[i] : i \in 1..Len(s)}

RECURSIVE SelectIdx(_, _, _)
\* the indices i of 1..n, in order, for which keep[i] holds
SelectIdx(keep, i, n) ==
    IF i > n THEN << >>
    ELSE IF keep[i] THEN <<i>> \o SelectIdx(keep, i + 1, n)
    ELSE SelectIdx(keep, i + 1, n)

\* s without every element equal to an earlier one (order of first occurrence)
Unique(s) ==
    LET keep == [i \in 1..Len(s) |-> \A j \in 1..(i - 1) : s[j] # s[i]]
        idx == SelectIdx(keep, 1, Len(s))
    IN [k \in 1..Len(idx) |-> s[idx[k]]]

(***************************************************************************)
(* DataFrame operations of pandas used by the script.                      *)
(***************************************************************************)
HasColumn(df, c) == c \in Range(df.columns)

\* df[col]: the column as a sequence of cells
Column(df, col) == [i \in 1..Len(df.rows) |-> df.rows[i][col]]

\* df with only the rows whose index is in idx (a sequence of indices)
TakeRows(df, idx) ==
    [df EXCEPT !.rows = [k \in 1..Len(idx) |-> df.rows[idx[k]]]]

\* df[cols]: raises KeyError when a requested column is absent
CanSelect(df, cols) == \A k \in 1..Len(cols) : HasColumn(df, cols[k])

SelectColumns(df, cols) ==
    [columns |-> cols,
     dtypes |-> [c \in Range(cols) |-> df.dtypes[c]],
     rows |-> [i \in 1..Len(df.rows) |-> [c \in Range(cols) |-> df.rows[i][c]]]]

\* df.rename(columns=mapping); mapping is a function from old to new names
NewName(mapping, c) == IF c \in DOMAIN mapping THEN mapping[c] ELSE c

OldName(mapping, df, c) ==
    CHOOSE o \in Range(df.columns) : NewName(mapping, o) = c

RenameColumns(df, mapping) ==
    LET cols == [k \in 1..Len(df.columns) |-> NewName(mapping, df.columns[k])]
    IN [columns |-> cols,
        dtypes |-> [c \in Range(cols) |-> df.dtypes[OldName(mapping, df, c)]],
        rows |-> [i \in 1..Len(df.rows) |->
                    [c \in Range(cols) |-> df.rows[i][OldName(mapping, df, c)]]]]

DropDuplicates_KeepLast(df, col) ==
    LET keep == [i \in 1..Len(df.rows) |->
                    \A j \in (i + 1)..Len(df.rows) : df.rows[j][col] # df.rows[i][col]]
    IN TakeRows(df, SelectIdx(keep, 1, Len(df.rows)))

\* df.drop_duplicates(subset=[col]): keeps the first row of each value
DropDuplicates(df, col) ==
    LET keep == [i \in 1..Len(df.rows) |->
                    \A j \in 1..(i - 1) : df.rows[j][col] # df.rows[i][col]]
    IN TakeRows(df, SelectIdx(keep, 1, Len(df.rows)))

\* df[df[col].isin(values)]
FilterIsIn(df, col, values) ==
    LET keep == [i \in 1..Len(df.rows) |-> df.rows[i][col] \in Range(values)]
    IN TakeRows(df, SelectIdx(keep, 1, Len(df.rows)))

(***************************************************************************)
(* init_db.py: cleaning and extraction.                                    *)
(***************************************************************************)
\* lines 25-28: the fill value of a column depends on its dtype
FillValue(df, col) ==
    IF df.dtypes[col] = "object" THEN FILL_STRING ELSE FILL_NUMBER

fill_and_strip(df) ==
    LET filled(i, c) ==
            IF IsNaN(df.rows[i][c]) THEN FillValue(df, c) ELSE df.rows[i][c]
        stripped(i, c) ==
            IF df.dtypes[c] = "object"
            THEN StrStripCell(filled(i, c))
            ELSE filled(i, c)
    IN [df EXCEPT !.rows =
            [i \in 1..Len(df.rows) |->
                [c \in Range(df.columns) |-> stripped(i, c)]]]

remove_all_occurrences(lst, value) ==
    LET keep == [i \in 1..Len(lst) |-> lst[i] # value]
        idx == SelectIdx(keep, 1, Len(lst))
    IN [k \in 1..Len(idx) |-> lst[idx[k]]]

unique_non_missing_KeepAll(series) == Unique(series)

unique_non_missing(series) ==
    Unique(remove_all_occurrences(series, MISSING_VALUE))

\* {k: row[k] for k in property_columns if k in row}, then ["name"] = name
PropertyBag(row, columns, property_columns, name) ==
    LET keys == (Range(property_columns) \cap columns) \cup {"name"}
    IN [k \in keys |-> IF k = "name" THEN name ELSE row[k]]

\* the rows of df whose key_col equals item, as indices in order
MatchingRows(df, key_col, item) ==
    SelectIdx([i \in 1..Len(df.rows) |-> df.rows[i][key_col] = item],
              1, Len(df.rows))

\* record[0] of get_properties
RepresentativeRow(df, key_col, item) ==
    MatchingRows(df, key_col, item)[1]

RECURSIVE get_properties_loop(_, _, _, _, _)
get_properties_loop(df, items, key_col, property_columns, k) ==
    IF k > Len(items) THEN << >>
    ELSE (IF MatchingRows(df, key_col, items[k]) # << >>
          THEN <<PropertyBag(df.rows[RepresentativeRow(df, key_col, items[k])],
                             Range(df.columns), property_columns, items[k])>>
          ELSE << >>)
         \o get_properties_loop(df, items, key_col, property_columns, k + 1)

get_properties(df, items, key_col, property_columns) ==
    get_properties_loop(df, items, key_col, property_columns, 1)

get_well_properties(df, wells, property_columns) ==
    LET filtered == FilterIsIn(df, "wlbWell", wells)
        deduped == DropDuplicates(filtered, "wlbWell")
    IN [i \in 1..Len(deduped.rows) |->
            PropertyBag(deduped.rows[i], Range(deduped.columns),
                        property_columns, deduped.rows[i]["wlbWell"])]

\* line 75 raises KeyError when a property column is not in the table
get_wellbore_properties_raises(df, property_columns) ==
    ~CanSelect(df, <<"wlbWellboreName">> \o property_columns)

get_wellbore_properties(df, wellbores, property_columns) ==
    LET filtered_df == FilterIsIn(df, "wlbWellboreName", wellbores)
        deduped_df == DropDuplicates(filtered_df, "wlbWellboreName")
        selected_df == RenameColumns(
            SelectColumns(deduped_df, <<"wlbWellboreName">> \o property_columns),
            [c \in {"wlbWellboreName"} |-> "name"])
    IN selected_df.rows


(***************************************************************************)
(* The Graph Store.  A graph is [nodes, rels]: the nodes in creation order *)
(* (a node's id is its position), each [label, props], and the             *)
(* relationships in creation order, each [src, dst, type, props].          *)
(***************************************************************************)
EmptyGraph == [nodes |-> << >>, rels |-> << >>]

NoProps == [k \in {} |-> NaN]

\* the nodes matched by the pattern (n:label {key: val})
MatchNodes(g, label, key, val) ==
    {i \in 1..Len(g.nodes) :
        /\ g.nodes[i].label = label
        /\ key \in DOMAIN g.nodes[i].props
        /\ g.nodes[i].props[key] = val}

MergeNode_AlwaysCreate(g, label, key, val) ==
    [g EXCEPT !.nodes = Append(@, [label |-> label, props |-> [k \in {key} |-> val]])]

\* CREATE (n:label {key: val})
CreateNode(g, label, key, val) ==
    [g EXCEPT !.nodes = Append(@, [label |-> label, props |-> [k \in {key} |-> val]])]

\* MERGE (n:label {key: val}): create the node only when nothing matches
MergeNode(g, label, key, val) ==
    IF MatchNodes(g, label, key, val) = {}
    THEN CreateNode(g, label, key, val)
    ELSE g

\* the relationships matched by (a)-[r:rel_type]->(b)
MatchRels(g, a, b, rel_type) ==
    {r \in 1..Len(g.rels) :
        g.rels[r].src = a /\ g.rels[r].dst = b /\ g.rels[r].type = rel_type}

CreateRel(g, a, b, rel_type) ==
    [g EXCEPT !.rels = Append(@, [src |-> a, dst |-> b, type |-> rel_type,
                                  props |-> NoProps])]

\* MERGE (a)-[r:rel_type]->(b) for one bound pair
MergeRel(g, a, b, rel_type) ==
    IF MatchRels(g, a, b, rel_type) = {}
    THEN CreateRel(g, a, b, rel_type)
    ELSE g

\* m += props (SET n += props, SET r += props)
PlusEquals(m, props) ==
    [k \in (DOMAIN m) \cup (DOMAIN props) |->
        IF k \in DOMAIN props THEN props[k] ELSE m[k]]

SetNodeProps(g, ids, props) ==
    [g EXCEPT !.nodes =
        [i \in 1..Len(g.nodes) |->
            IF i \in ids
            THEN [g.nodes[i] EXCEPT !.props = PlusEquals(@, props)]
            ELSE g.nodes[i]]]

SetRelProps(g, ids, props) ==
    [g EXCEPT !.rels =
        [r \in 1..Len(g.rels) |->
            IF r \in ids
            THEN [g.rels[r] EXCEPT !.props = PlusEquals(@, props)]
            ELSE g.rels[r]]]

\* the pairs of bound nodes, smallest first
MinPair(pairs) ==
    CHOOSE p \in pairs :
        \A q \in pairs : p[1] < q[1] \/ (p[1] = q[1] /\ p[2] <= q[2])

RECURSIVE MergeRelPairs(_, _, _)
\* MERGE (a)-[r:rel_type]->(b) for every binding of a and b.  (Here and in
\* the loops below, "h \in {step}" binds the graph after one step as a value
\* before the next step is taken: the steps run one after the other.)
MergeRelPairs(g, pairs, rel_type) ==
    IF pairs = {} THEN g
    ELSE LET p == MinPair(pairs)
         IN CHOOSE out \in {MergeRelPairs(h, pairs \ {p}, rel_type) :
                               h \in {MergeRel(g, p[1], p[2], rel_type)}} : TRUE

(***************************************************************************)
(* neo4j_driver.py: Neo4jHandler's queries.                                *)
(***************************************************************************)
RECURSIVE create_nodes_unwind(_, _, _, _, _)
create_nodes_unwind(g, label, values, property_key, k) ==
    IF k > Len(values) THEN g
    ELSE CHOOSE out \in {create_nodes_unwind(h, label, values, property_key, k + 1) :
                            h \in {MergeNode(g, label, property_key, values[k])}} : TRUE

\* lines 30-47
create_nodes(g, label, values, property_key) ==
    create_nodes_unwind(g, label, values, property_key, 1)

RECURSIVE create_nodes_with_props_unwind(_, _, _, _)
create_nodes_with_props_unwind(g, label, list_of_props, k) ==
    IF k > Len(list_of_props) THEN g
    ELSE LET props == list_of_props[k]
             merged == MergeNode(g, label, "name", props["name"])
             bound == MatchNodes(merged, label, "name", props["name"])
         IN CHOOSE out \in {create_nodes_with_props_unwind(h, label, list_of_props, k + 1) :
                               h \in {SetNodeProps(merged, bound, props)}} : TRUE

\* lines 49-66
create_nodes_with_props(g, label, list_of_props) ==
    create_nodes_with_props_unwind(g, label, list_of_props, 1)

\* lines 68-116; rel_props = NoProps stands for None (and for {})
create_edge(g, label1, key1, value1, label2, key2, value2, rel_type, rel_props) ==
    LET ga == MergeNode(g, label1, key1, value1)
        gb == MergeNode(ga, label2, key2, value2)
        as == MatchNodes(gb, label1, key1, value1)
        bs == MatchNodes(gb, label2, key2, value2)
        gr == MergeRelPairs(gb, as \X bs, rel_type)
        rs == {r \in 1..Len(gr.rels) :
                 gr.rels[r].src \in as /\ gr.rels[r].dst \in bs
                    /\ gr.rels[r].type = rel_type}
    IN IF rel_props # NoProps THEN SetRelProps(gr, rs, rel_props) ELSE gr

(***************************************************************************)
(* init_db.py lines 176-209: the batched well relationship query.          *)
(***************************************************************************)
\* lines 192-200: MERGE (var:Label {name: row.column})
WellNodeMerges ==
    << [var |-> "a",  label |-> "Area",             column |-> "wlbMainArea"],
       [var |-> "l",  label |-> "License",          column |-> "wlbProductionLicence"],
       [var |-> "f",  label |-> "Field",            column |-> "wlbField"],
       [var |-> "d",  label |-> "Discovery",        column |-> "wlbDiscovery"],
       [var |-> "w",  label |-> "Well",             column |-> "wlbWell"],
       [var |-> "wb", label |-> "Wellbore",         column |-> "wlbWellboreName"],
       [var |-> "df", label |-> "DrillingFacility", column |-> "wlbDrillingFacility"],
       [var |-> "ft", label |-> "FacilityType",     column |-> "wlbFacilityTypeDrilling"],
       [var |-> "op", label |-> "Operator",         column |-> "wlbDrillingOperator"] >>

\* lines 201-208: MERGE (src)-[:type]->(dst)
WellRelMerges ==
    << [src |-> "a",  type |-> "HAS_LICENSE",           dst |-> "l"],
       [src |-> "l",  type |-> "HAS_FIELD",             dst |-> "f"],
       [src |-> "f",  type |-> "HAS_DISCOVERY",         dst |-> "d"],
       [src |-> "d",  type |-> "HAS_WELL",              dst |-> "w"],
       [src |-> "w",  type |-> "HAS_WELLBORE",          dst |-> "wb"],
       [src |-> "wb", type |-> "HAS_DRILLING_FACILITY", dst |-> "df"],
       [src |-> "wb", type |-> "HAS_FACILITY_TYPE_OF",  dst |-> "ft"],
       [src |-> "wb", type |-> "WAS_OPERATED_BY",       dst |-> "op"] >>

\* the node merge that binds each variable of the query
WellVarTable ==
    [v \in {WellNodeMerges[k].var : k \in 1..Len(WellNodeMerges)} |->
        CHOOSE m \in Range(WellNodeMerges) : m.var = v]

MergeOfVar(v) == WellVarTable[v]

WellColumns == {WellNodeMerges[k].column : k \in 1..Len(WellNodeMerges)}

\* lines 178-188: the dictionary built from one row of well_df
well_relationship(row) ==
    [c \in WellColumns |-> row[c]]

well_relationships_of_SkipMissing(df) ==
    LET keep == [i \in 1..Len(df.rows) |->
                    \A c \in Range(df.columns) :
                        df.rows[i][c] \notin {MISSING_VALUE, FILL_STRING, FILL_NUMBER}]
        idx == SelectIdx(keep, 1, Len(df.rows))
    IN [k \in 1..Len(idx) |-> well_relationship(df.rows[idx[k]])]

\* lines 176-188: one dictionary per row of well_df, no row left out
well_relationships_of(df) ==
    [i \in 1..Len(df.rows) |-> well_relationship(df.rows[i])]

RECURSIVE WellRowNodes(_, _, _)
WellRowNodes(g, row, k) ==
    IF k > Len(WellNodeMerges) THEN g
    ELSE CHOOSE out \in {WellRowNodes(h, row, k + 1) :
                            h \in {MergeNode(g, WellNodeMerges[k].label, "name",
                                             row[WellNodeMerges[k].column])}} : TRUE

BoundNodes(g, row, v) ==
    MatchNodes(g, MergeOfVar(v).label, "name", row[MergeOfVar(v).column])

RECURSIVE WellRowRels(_, _, _)
WellRowRels(g, row, k) ==
    IF k > Len(WellRelMerges) THEN g
    ELSE CHOOSE out \in {WellRowRels(h, row, k + 1) :
                            h \in {MergeRelPairs(g,
                                       BoundNodes(g, row, WellRelMerges[k].src)
                                           \X BoundNodes(g, row, WellRelMerges[k].dst),
                                       WellRelMerges[k].type)}} : TRUE

RECURSIVE well_cypher_unwind(_, _, _)
well_cypher_unwind(g, rows, i) ==
    IF i > Len(rows) THEN g
    ELSE CHOOSE out \in {well_cypher_unwind(h, rows, i + 1) :
                            h \in {WellRowRels(WellRowNodes(g, rows[i], 1),
                                               rows[i], 1)}} : TRUE

\* session.run(cypher, rows=well_relationships)
well_cypher(g, rows) == well_cypher_unwind(g, rows, 1)


(***************************************************************************)
(* init_db.py, main: the column lists.                                     *)
(***************************************************************************)
\* lines 95-98
license_properties_columns ==
    <<"prlLicensingActivityName", "prlMainArea", "prlStatus", "prlDateGranted",
      "prlDateValidTo", "prlOriginalArea", "prlCurrentArea", "prlPhaseCurrent",
      "prlFactPageUrl">>

\* lines 106-109
field_useful_columns ==
    <<"fldName", "cmpLongName", "fldCurrentActivitySatus", "wlbName",
      "wlbCompletionDate", "fldMainArea", "fldOwnerKind", "fldMainSupplyBase",
      "fldHcType">>

\* lines 110-113
field_rename_mapping ==
    [c \in {"fldCurrentActivitySatus", "wlbName"} |->
        IF c = "wlbName" THEN "Discovery_Wellbore" ELSE "fldCurrentActivityStatus"]

\* lines 114-117
field_properties_columns ==
    <<"cmpLongName", "fldCurrentActivityStatus", "Discovery_Wellbore",
      "wlbCompletionDate", "fldMainArea", "fldOwnerKind", "fldMainSupplyBase",
      "fldHcType">>

\* lines 127-134
useful_columns ==
    <<"wlbWellboreName", "wlbWellType", "wlbWell", "wlbDrillingOperator",
      "wlbPurpose", "wlbStatus", "wlbContent", "wlbSubSea", "wlbField",
      "wlbMaxInclation", "wlbKellyBushElevation", "wlbFinalVerticalDepth",
      "wlbTotalDepth", "wlbProductionLicence", "wlbWaterDepth", "wlbKickOffPoint",
      "wlbMultilateral", "wlbDiskosWellboreType", "wlbFactPageUrl", "wlbNsDecDeg",
      "wlbEwDecDeg", "wlbDrillingDays", "wlbEntryYear", "wlbCompletionYear",
      "wlbMainArea", "wlbDrillingFacility", "wlbAgeAtTd", "wlbDiscovery",
      "wlbFacilityTypeDrilling">>

\* lines 135-141
properties_columns ==
    <<"wlbPurpose", "wlbStatus", "wlbContent", "latitude", "longitude",
      "wlbSubSea", "wlbMaxInclination", "wlbKellyBushElevation",
      "wlbFinalVerticalDepth", "wlbTotalDepth", "wlbWaterDepth", "wlbKickOffPoint",
      "wlbMultilateral", "wlbDiskosWellboreType", "wlbFactPageUrl",
      "wlbDrillingDays", "wlbEntryYear", "wlbCompletionYear", "wlbAgeAtTd",
      "wlbFacilityTypeDrilling">>

\* lines 142-146
well_rename_mapping ==
    [c \in {"wlbNsDecDeg", "wlbEwDecDeg", "wlbMaxInclation"} |->
        CASE c = "wlbNsDecDeg" -> "latitude"
          [] c = "wlbEwDecDeg" -> "longitude"
          [] OTHER -> "wlbMaxInclination"]

(***************************************************************************)
(* pd.read_csv: the tables the script can be given.  A column whose cells  *)
(* are all absent or numeric is read with a numeric dtype, any other       *)
(* column (and every column of a table without rows) as object.            *)
(***************************************************************************)
InferDtype(rows, c) ==
    IF rows # << >> /\ \A i \in 1..Len(rows) : rows[i][c].t \in {"nan", "num"}
    THEN "number"
    ELSE "object"

read_csv(columns, rows) ==
    [columns |-> columns,
     dtypes |-> [c \in Range(columns) |-> InferDtype(rows, c)],
     rows |-> rows]

\* the sequences of at most n elements of S
SeqsUpTo(S, n) == UNION {[1..k -> S] : k \in 0..n}

\* a row of a table: the cells given by vary, and "x" in every other column
RowOf(columns, vary) ==
    [c \in Range(columns) |-> IF c \in DOMAIN vary THEN vary[c] ELSE Str(<<"x">>)]

LicenseColumns == <<"prlName">> \o license_properties_columns

LicenseRows ==
    {RowOf(LicenseColumns, [c \in {"prlName", "prlCurrentArea"} |->
                               IF c = "prlName" THEN n ELSE NaN]) :
        n \in {Str(<<"P", "1", " ">>)}}

FieldRows ==
    {RowOf(field_useful_columns,
           [c \in {"fldName", "cmpLongName", "fldMainSupplyBase"} |->
               CASE c = "fldName" -> v[1]
                 [] c = "cmpLongName" -> Str(<<"O", "1">>)
                 [] OTHER -> v[2]]) :
        v \in {<<Str(<<"F", "1">>), Str(<<"S", "1">>)>>,
               <<Str(<<" ", "F", "2">>), NaN>>}}

WellRows ==
    {RowOf(useful_columns,
           [c \in {"wlbWell", "wlbWellboreName", "wlbDrillingFacility",
                   "wlbDiscovery", "wlbTotalDepth"} |->
               CASE c = "wlbWell" -> Str(<<"W", "1">>)
                 [] c = "wlbWellboreName" -> Str(<<"B", "1">>)
                 [] c = "wlbDrillingFacility" -> v[1]
                 [] c = "wlbDiscovery" -> v[2]
                 [] OTHER -> NaN]) :
        v \in {<<NaN, Str(<<" ">>)>>, <<Str(<<"D", "1", " ">>), Str(<<"X", "1">>)>>}}

LicenseTables == {read_csv(LicenseColumns, r) : r \in SeqsUpTo(LicenseRows, MaxLicenseRows)}
FieldTables == {read_csv(field_useful_columns, r) : r \in SeqsUpTo(FieldRows, MaxFieldRows)}
WellTables == {read_csv(useful_columns, r) : r \in SeqsUpTo(WellRows, MaxWellRows)}

EmptyTable == read_csv(<< >>, << >>)


(***************************************************************************)
(* The state of one run of main().                                         *)
(***************************************************************************)
VARIABLES
    pc,                       \* the position in main()
    license_df, field_df, well_df,
    licenses_with_properties, fields_with_properties, supply_bases,
    areas, discoveries, wells_with_properties, wellbore_with_properties,
    drilling_facilities, facilities, operators,
    driver,                   \* "none", "open" or "closed"
    graph,                    \* the content of the Graph Store
    step,                     \* the node upsert of lines 165-174 to run next
    index,                    \* the row of field_df the loop of line 219 is at
    exception,                \* whether an exception is propagating out of main
    tables_loaded,            \* how many source tables were read and extracted
    connect_failed,           \* whether the check of neo4j_driver.py line 20 raised
    close_calls,              \* the calls of handler.close()
    node_calls,               \* the node upsert calls made, as step numbers
    node_raised,              \* whether a node upsert call raised
    well_edge_calls,          \* the calls submitting edges of the well table
    field_edge_calls,         \* the calls submitting edges of the field table
    submitted,                \* the edges handed to the Graph Store
    printed,                  \* the error messages printed
    ex_df, ex_property_columns, ex_call, ex_output,   \* one extraction call
    loader_calls,             \* how many loader operations were applied
    last_op,                  \* the loader operation applied last
    repeated                  \* whether it repeated the one before it

dataVars ==
    <<license_df, field_df, well_df, licenses_with_properties,
      fields_with_properties, supply_bases, areas, discoveries,
      wells_with_properties, wellbore_with_properties, drilling_facilities,
      facilities, operators, tables_loaded>>

storeVars ==
    <<graph, node_calls, node_raised, well_edge_calls, field_edge_calls,
      submitted, printed>>

exVars == <<ex_df, ex_property_columns, ex_call, ex_output>>

loaderVars == <<loader_calls, last_op, repeated>>

vars ==
    <<pc, dataVars, driver, storeVars, step, index, exception, connect_failed,
      close_calls, exVars, loaderVars>>

\* lines 165-174
LastNodeUpsert == 10

\* an edge as handed to the store
Edge(label1, value1, label2, value2, rel_type) ==
    [label1 |-> label1, value1 |-> value1, label2 |-> label2,
     value2 |-> value2, type |-> rel_type]

InitData ==
    /\ license_df = EmptyTable
    /\ field_df = EmptyTable
    /\ well_df = EmptyTable
    /\ licenses_with_properties = << >>
    /\ fields_with_properties = << >>
    /\ supply_bases = << >>
    /\ areas = << >>
    /\ discoveries = << >>
    /\ wells_with_properties = << >>
    /\ wellbore_with_properties = << >>
    /\ drilling_facilities = << >>
    /\ facilities = << >>
    /\ operators = << >>
    /\ tables_loaded = 0

InitStore ==
    /\ graph = EmptyGraph
    /\ node_calls = << >>
    /\ node_raised = FALSE
    /\ well_edge_calls = 0
    /\ field_edge_calls = 0
    /\ submitted = {}
    /\ printed = << >>

InitEx ==
    /\ ex_df = EmptyTable
    /\ ex_property_columns = << >>
    /\ ex_call = "none"
    /\ ex_output = << >>

NoOp == [op |-> "none"]

InitLoaderVars ==
    /\ loader_calls = 0
    /\ last_op = NoOp
    /\ repeated = FALSE

Init ==
    /\ pc = "license"
    /\ InitData
    /\ InitStore
    /\ InitEx
    /\ driver = "none"
    /\ step = 1
    /\ index = 0
    /\ exception = FALSE
    /\ connect_failed = FALSE
    /\ close_calls = 0
    /\ InitLoaderVars

(***************************************************************************)
(* main, lines 92-161: read, clean and extract the three tables.           *)
(***************************************************************************)
\* lines 93-101
LoadLicense ==
    /\ pc = "license"
    /\ \E raw \in LicenseTables :
        LET df == fill_and_strip(raw)
            licenses == unique_non_missing(Column(df, "prlName"))
        IN /\ license_df' = df
           /\ licenses_with_properties' =
                get_properties(df, licenses, "prlName", license_properties_columns)
    /\ tables_loaded' = tables_loaded + 1
    /\ pc' = "field"
    /\ UNCHANGED <<field_df, well_df, fields_with_properties, supply_bases, areas,
                   discoveries, wells_with_properties, wellbore_with_properties,
                   drilling_facilities, facilities, operators>>
    /\ UNCHANGED <<driver, storeVars, step, index, exception, connect_failed,
                   close_calls, exVars, loaderVars>>

\* lines 104-122
LoadField ==
    /\ pc = "field"
    /\ \E raw \in FieldTables :
        LET df == fill_and_strip(
                    RenameColumns(SelectColumns(raw, field_useful_columns),
                                  field_rename_mapping))
            fields == unique_non_missing(Column(df, "fldName"))
        IN /\ CanSelect(raw, field_useful_columns)
           /\ field_df' = df
           /\ fields_with_properties' =
                get_properties(df, fields, "fldName", field_properties_columns)
           /\ supply_bases' = unique_non_missing(Column(df, "fldMainSupplyBase"))
    /\ tables_loaded' = tables_loaded + 1
    /\ pc' = "well"
    /\ UNCHANGED <<license_df, well_df, licenses_with_properties, areas,
                   discoveries, wells_with_properties, wellbore_with_properties,
                   drilling_facilities, facilities, operators>>
    /\ UNCHANGED <<driver, storeVars, step, index, exception, connect_failed,
                   close_calls, exVars, loaderVars>>

\* lines 125-161
LoadWell ==
    /\ pc = "well"
    /\ \E raw \in WellTables :
        LET df == fill_and_strip(
                    RenameColumns(SelectColumns(raw, useful_columns),
                                  well_rename_mapping))
            wells == unique_non_missing(Column(df, "wlbWell"))
            wellbores == unique_non_missing(Column(df, "wlbWellboreName"))
        IN /\ CanSelect(raw, useful_columns)
           /\ ~get_wellbore_properties_raises(df, properties_columns)
           /\ well_df' = df
           /\ areas' = unique_non_missing(Column(df, "wlbMainArea"))
           /\ discoveries' = unique_non_missing(Column(df, "wlbDiscovery"))
           /\ wells_with_properties' =
                get_well_properties(df, wells, properties_columns)
           /\ wellbore_with_properties' =
                get_wellbore_properties(df, wellbores, properties_columns)
           /\ drilling_facilities' =
                unique_non_missing(Column(df, "wlbDrillingFacility"))
           /\ facilities' =
                unique_non_missing(Column(df, "wlbFacilityTypeDrilling"))
           /\ operators' = unique_non_missing(Column(df, "wlbDrillingOperator"))
    /\ tables_loaded' = tables_loaded + 1
    /\ pc' = "connect"
    /\ UNCHANGED <<license_df, field_df, licenses_with_properties,
                   fields_with_properties, supply_bases>>
    /\ UNCHANGED <<driver, storeVars, step, index, exception, connect_failed,
                   close_calls, exVars, loaderVars>>

\* lines 94, 105, 126: a source file that cannot be read ends the run
ReadCsvRaises ==
    /\ pc \in {"license", "field", "well"}
    /\ pc' = "exited"
    /\ exception' = TRUE
    /\ UNCHANGED <<dataVars, driver, storeVars, step, index, connect_failed,
                   close_calls, exVars, loaderVars>>


(***************************************************************************)
(* main, line 163, and Neo4jHandler.__init__ (neo4j_driver.py 17-24).      *)
(***************************************************************************)
\* the driver is created and the check "RETURN 1" succeeds
ConnectOk ==
    /\ pc = "connect"
    /\ driver' = "open"
    /\ pc' = "nodes"
    /\ UNCHANGED <<dataVars, storeVars, step, index, exception, connect_failed,
                   close_calls, exVars, loaderVars>>

\* where main continues when the check raises: __init__ re-raises (line 24)
\* and line 163 is outside the try of line 164
AfterConnectRaises_Swallowed == "nodes"

AfterConnectRaises == "exited"

\* the driver is created (line 17) and the check raises
ConnectRaises ==
    /\ pc = "connect"
    /\ driver' = "open"
    /\ connect_failed' = TRUE
    /\ exception' = (AfterConnectRaises = "exited")
    /\ pc' = AfterConnectRaises
    /\ UNCHANGED <<dataVars, storeVars, step, index, close_calls, exVars, loaderVars>>

(***************************************************************************)
(* main, lines 165-174: the node upserts.                                  *)
(***************************************************************************)
NodeUpsert(g, k) ==
    CASE k = 1 -> create_nodes(g, "Area", areas, "name")
      [] k = 2 -> create_nodes_with_props(g, "License", licenses_with_properties)
      [] k = 3 -> create_nodes(g, "Discovery", discoveries, "name")
      [] k = 4 -> create_nodes_with_props(g, "Well", wells_with_properties)
      [] k = 5 -> create_nodes_with_props(g, "Wellbore", wellbore_with_properties)
      [] k = 6 -> create_nodes(g, "DrillingFacility", drilling_facilities, "name")
      [] k = 7 -> create_nodes(g, "FacilityType", facilities, "name")
      [] k = 8 -> create_nodes(g, "Operator", operators, "name")
      [] k = 9 -> create_nodes_with_props(g, "Field", fields_with_properties)
      [] k = 10 -> create_nodes(g, "Base", supply_bases, "name")

NodeUpsertOk ==
    /\ pc = "nodes"
    /\ graph' = NodeUpsert(graph, step)
    /\ node_calls' = Append(node_calls, step)
    /\ step' = step + 1
    /\ pc' = IF step = LastNodeUpsert THEN "well_rel" ELSE "nodes"
    /\ UNCHANGED <<dataVars, driver, node_raised, well_edge_calls,
                   field_edge_calls, submitted, printed, index, exception,
                   connect_failed, close_calls, exVars, loaderVars>>

\* where main continues when a node upsert raises: nothing catches it inside
\* the try of line 164, so the finally of line 226 runs next
AfterNodeUpsertRaises_Continue(k) ==
    IF k = LastNodeUpsert THEN "well_rel" ELSE "nodes"

AfterNodeUpsertRaises(k) == "finally"

NodeUpsertRaises ==
    /\ pc = "nodes"
    /\ node_calls' = Append(node_calls, step)
    /\ node_raised' = TRUE
    /\ step' = step + 1
    /\ pc' = AfterNodeUpsertRaises(step)
    /\ exception' = (pc' = "finally")
    /\ UNCHANGED <<dataVars, driver, graph, well_edge_calls, field_edge_calls,
                   submitted, printed, index, connect_failed, close_calls,
                   exVars, loaderVars>>

(***************************************************************************)
(* main, lines 176-216: the batched well relationships.                    *)
(***************************************************************************)
\* the edges the query of lines 190-209 is asked to merge for rows
WellEdges(rows) ==
    {Edge(MergeOfVar(WellRelMerges[k].src).label,
          rows[i][MergeOfVar(WellRelMerges[k].src).column],
          MergeOfVar(WellRelMerges[k].dst).label,
          rows[i][MergeOfVar(WellRelMerges[k].dst).column],
          WellRelMerges[k].type) :
        i \in 1..Len(rows), k \in 1..Len(WellRelMerges)}

\* line 212: one session.run for the whole list, outside any loop
WellBatchCalls_PerRow(rows) == Len(rows)

WellBatchCalls(rows) == 1

WellBatchOk ==
    /\ pc = "well_rel"
    /\ graph' = well_cypher(graph, well_relationships_of(well_df))
    /\ submitted' = submitted \cup WellEdges(well_relationships_of(well_df))
    /\ well_edge_calls' = well_edge_calls + WellBatchCalls(well_relationships_of(well_df))
    /\ pc' = "field_rel"
    /\ UNCHANGED <<dataVars, driver, node_calls, node_raised, field_edge_calls,
                   printed, step, index, exception, connect_failed, close_calls,
                   exVars, loaderVars>>

\* lines 214-216: the whole query failed; the store keeps none of it
WellBatchRaises ==
    /\ pc = "well_rel"
    /\ submitted' = submitted \cup WellEdges(well_relationships_of(well_df))
    /\ well_edge_calls' = well_edge_calls + WellBatchCalls(well_relationships_of(well_df))
    /\ printed' = Append(printed, [where |-> "batch", index |-> -1])
    /\ pc' = "field_rel"
    /\ UNCHANGED <<dataVars, driver, graph, node_calls, node_raised,
                   field_edge_calls, step, index, exception, connect_failed,
                   close_calls, exVars, loaderVars>>

(***************************************************************************)
(* main, lines 218-225: the field relationships, one row at a time.        *)
(***************************************************************************)
FieldRow == field_df.rows[index + 1]

ManagesEdge(row) ==
    Edge("Operator", row["cmpLongName"], "Field", row["fldName"], "MANAGES")

SupplyBaseEdge(row) ==
    Edge("Field", row["fldName"], "Base", row["fldMainSupplyBase"],
         "HAS_SUPPLYBASE_OF")

\* handler.create_edge of an edge
SubmitEdge(g, e) ==
    create_edge(g, e.label1, "name", e.value1, e.label2, "name", e.value2,
                e.type, NoProps)

\* where the loop continues after the except of lines 223-225
AfterFieldRowRaises_Break(i) == Len(field_df.rows)

AfterFieldRowRaises(i) == i + 1

FieldRowOk ==
    /\ pc = "field_rel"
    /\ index < Len(field_df.rows)
    /\ graph' = SubmitEdge(SubmitEdge(graph, ManagesEdge(FieldRow)),
                           SupplyBaseEdge(FieldRow))
    /\ submitted' = submitted \cup {ManagesEdge(FieldRow), SupplyBaseEdge(FieldRow)}
    /\ field_edge_calls' = field_edge_calls + 2
    /\ index' = index + 1
    /\ UNCHANGED <<pc, dataVars, driver, node_calls, node_raised, well_edge_calls,
                   printed, step, exception, connect_failed, close_calls,
                   exVars, loaderVars>>

\* the first create_edge of the row (line 221) raises: line 222 is skipped
FieldManagesRaises ==
    /\ pc = "field_rel"
    /\ index < Len(field_df.rows)
    /\ submitted' = submitted \cup {ManagesEdge(FieldRow)}
    /\ field_edge_calls' = field_edge_calls + 1
    /\ printed' = Append(printed, [where |-> "field", index |-> index])
    /\ index' = AfterFieldRowRaises(index)
    /\ UNCHANGED <<pc, dataVars, driver, graph, node_calls, node_raised,
                   well_edge_calls, step, exception, connect_failed, close_calls,
                   exVars, loaderVars>>

\* the second create_edge of the row (line 222) raises
FieldSupplyBaseRaises ==
    /\ pc = "field_rel"
    /\ index < Len(field_df.rows)
    /\ graph' = SubmitEdge(graph, ManagesEdge(FieldRow))
    /\ submitted' = submitted \cup {ManagesEdge(FieldRow), SupplyBaseEdge(FieldRow)}
    /\ field_edge_calls' = field_edge_calls + 2
    /\ printed' = Append(printed, [where |-> "field", index |-> index])
    /\ index' = AfterFieldRowRaises(index)
    /\ UNCHANGED <<pc, dataVars, driver, node_calls, node_raised, well_edge_calls,
                   step, exception, connect_failed, close_calls, exVars, loaderVars>>

FieldLoopEnd ==
    /\ pc = "field_rel"
    /\ index = Len(field_df.rows)
    /\ pc' = "finally"
    /\ UNCHANGED <<dataVars, driver, storeVars, step, index, exception,
                   connect_failed, close_calls, exVars, loaderVars>>

\* lines 226-227 and neo4j_driver.py lines 26-28
Close ==
    /\ pc = "finally"
    /\ driver' = "closed"
    /\ close_calls' = close_calls + 1
    /\ pc' = "exited"
    /\ UNCHANGED <<dataVars, storeVars, step, index, exception, connect_failed,
                   exVars, loaderVars>>

Next ==
    \/ LoadLicense
    \/ LoadField
    \/ LoadWell
    \/ ReadCsvRaises
    \/ ConnectOk
    \/ ConnectRaises
    \/ NodeUpsertOk
    \/ NodeUpsertRaises
    \/ WellBatchOk
    \/ WellBatchRaises
    \/ FieldRowOk
    \/ FieldManagesRaises
    \/ FieldSupplyBaseRaises
    \/ FieldLoopEnd
    \/ Close

Spec == Init /\ [][Next]_vars


(***************************************************************************)
(* The extraction functions on their own: one table is cleaned and one of  *)
(* get_properties, get_well_properties, get_wellbore_properties is called  *)
(* on it the way main calls them (items = unique_non_missing(df[key_col])),*)
(* with a list of property columns that may name a column the table lacks. *)
(***************************************************************************)
ExtractColumns == <<"wlbWell", "wlbWellboreName", "wlbStatus", "wlbTotalDepth">>

ExtractRows ==
    {[c \in Range(ExtractColumns) |->
        CASE c = "wlbWell" -> v[1]
          [] c = "wlbWellboreName" -> v[2]
          [] c = "wlbStatus" -> v[3]
          [] OTHER -> NaN] :
        v \in {NaN, Str(<<"W", "1">>), Str(<<"W", "1", " ">>), Str(<<" ">>)}
                \X {Str(<<"B", "1">>), Str(<<"B", "2">>)}
                \X {Str(<<"x">>), Str(<<"y">>)}}

ExtractTables ==
    {read_csv(ExtractColumns, r) : r \in SeqsUpTo(ExtractRows, MaxExtractRows)}

\* "latitude" is a column of properties_columns that ExtractColumns lacks
ExtractPropertyColumns ==
    {<<"wlbStatus", "wlbTotalDepth">>, <<"wlbStatus", "latitude">>}

NoCall == [fn |-> "none", key_col |-> "", raised |-> FALSE]

InitExtract ==
    /\ pc = "extract"
    /\ InitData
    /\ InitStore
    /\ ex_df \in ExtractTables
    /\ ex_property_columns \in ExtractPropertyColumns
    /\ ex_call = [NoCall EXCEPT !.fn = "read_csv"]
    /\ ex_output = << >>
    /\ driver = "none"
    /\ step = 1
    /\ index = 0
    /\ exception = FALSE
    /\ connect_failed = FALSE
    /\ close_calls = 0
    /\ InitLoaderVars

ExUnchanged ==
    UNCHANGED <<pc, dataVars, driver, storeVars, step, index, exception,
                connect_failed, close_calls, loaderVars>>

ExClean ==
    /\ pc = "extract"
    /\ ex_call.fn = "read_csv"
    /\ ex_df' = fill_and_strip(ex_df)
    /\ ex_call' = [NoCall EXCEPT !.fn = "fill_and_strip"]
    /\ UNCHANGED <<ex_property_columns, ex_output>>
    /\ ExUnchanged

ExGetProperties ==
    /\ pc = "extract"
    /\ ex_call.fn = "fill_and_strip"
    /\ \E key_col \in {"wlbWell", "wlbWellboreName"} :
        /\ ex_output' = get_properties(ex_df,
                                       unique_non_missing(Column(ex_df, key_col)),
                                       key_col, ex_property_columns)
        /\ ex_call' = [fn |-> "get_properties", key_col |-> key_col, raised |-> FALSE]
    /\ UNCHANGED <<ex_df, ex_property_columns>>
    /\ ExUnchanged

ExGetWellProperties ==
    /\ pc = "extract"
    /\ ex_call.fn = "fill_and_strip"
    /\ ex_output' = get_well_properties(ex_df,
                                        unique_non_missing(Column(ex_df, "wlbWell")),
                                        ex_property_columns)
    /\ ex_call' = [fn |-> "get_well_properties", key_col |-> "wlbWell",
                   raised |-> FALSE]
    /\ UNCHANGED <<ex_df, ex_property_columns>>
    /\ ExUnchanged

ExGetWellboreProperties ==
    /\ pc = "extract"
    /\ ex_call.fn = "fill_and_strip"
    /\ ~get_wellbore_properties_raises(ex_df, ex_property_columns)
    /\ ex_output' = get_wellbore_properties(
                        ex_df, unique_non_missing(Column(ex_df, "wlbWellboreName")),
                        ex_property_columns)
    /\ ex_call' = [fn |-> "get_wellbore_properties", key_col |-> "wlbWellboreName",
                   raised |-> FALSE]
    /\ UNCHANGED <<ex_df, ex_property_columns>>
    /\ ExUnchanged

\* line 75 raises KeyError: the call returns nothing
ExGetWellborePropertiesRaises ==
    /\ pc = "extract"
    /\ ex_call.fn = "fill_and_strip"
    /\ get_wellbore_properties_raises(ex_df, ex_property_columns)
    /\ ex_output' = << >>
    /\ ex_call' = [fn |-> "get_wellbore_properties", key_col |-> "wlbWellboreName",
                   raised |-> TRUE]
    /\ UNCHANGED <<ex_df, ex_property_columns>>
    /\ ExUnchanged

NextExtract ==
    \/ ExClean
    \/ ExGetProperties
    \/ ExGetWellProperties
    \/ ExGetWellboreProperties
    \/ ExGetWellborePropertiesRaises

SpecExtract == InitExtract /\ [][NextExtract]_vars

(***************************************************************************)
(* The loader operations on their own: any sequence of at most             *)
(* MaxLoaderOps calls of create_nodes, create_nodes_with_props, the well   *)
(* relationship query and create_edge, starting from an empty store.       *)
(***************************************************************************)
LoaderNames == {Str(<<"A">>), FILL_STRING}

LoaderBags ==
    {[k \in {"name", "wlbStatus"} |-> IF k = "name" THEN n ELSE p] :
        n \in LoaderNames, p \in {Str(<<"x">>), Str(<<"y">>)}}

\* rows of well_relationships: every endpoint "A" but the wellbore's
LoaderRows ==
    {[c \in WellColumns |->
        IF c = "wlbWellboreName" THEN n ELSE Str(<<"A">>)] : n \in LoaderNames}

LoaderOps ==
    {[op |-> "create_nodes", label |-> "Wellbore", values |-> v] :
        v \in SeqsUpTo(LoaderNames, 2)}
    \cup {[op |-> "create_nodes_with_props", label |-> "Wellbore", batch |-> b] :
            b \in SeqsUpTo(LoaderBags, 2) \ {<< >>}}
    \cup {[op |-> "well_cypher", rows |-> r] : r \in SeqsUpTo(LoaderRows, 2) \ {<< >>}}
    \cup {[op |-> "create_edge", edge |-> Edge("Well", Str(<<"A">>), "Wellbore", n, t),
           rel_props |-> rp] :
            n \in LoaderNames, t \in {"HAS_WELLBORE"},
            rp \in {NoProps, [k \in {"since"} |-> Str(<<"x">>)]}}

ApplyOp(g, o) ==
    CASE o.op = "create_nodes" -> create_nodes(g, o.label, o.values, "name")
      [] o.op = "create_nodes_with_props" ->
            create_nodes_with_props(g, o.label, o.batch)
      [] o.op = "well_cypher" -> well_cypher(g, o.rows)
      [] o.op = "create_edge" ->
            create_edge(g, o.edge.label1, "name", o.edge.value1, o.edge.label2,
                        "name", o.edge.value2, o.edge.type, o.rel_props)

InitLoader ==
    /\ pc = "loader"
    /\ InitData
    /\ InitStore
    /\ InitEx
    /\ InitLoaderVars
    /\ driver = "open"
    /\ step = 1
    /\ index = 0
    /\ exception = FALSE
    /\ connect_failed = FALSE
    /\ close_calls = 0

LoaderStep(o) ==
    /\ pc = "loader"
    /\ loader_calls < MaxLoaderOps
    /\ graph' = ApplyOp(graph, o)
    /\ loader_calls' = loader_calls + 1
    /\ last_op' = o
    /\ repeated' = (o = last_op)
    /\ UNCHANGED <<pc, dataVars, driver, node_calls, node_raised, well_edge_calls,
                   field_edge_calls, submitted, printed, step, index, exception,
                   connect_failed, close_calls, exVars>>

LoaderCreateNodes ==
    \E o \in LoaderOps : o.op = "create_nodes" /\ LoaderStep(o)

LoaderCreateNodesWithProps ==
    \E o \in LoaderOps : o.op = "create_nodes_with_props" /\ LoaderStep(o)

LoaderWellCypher ==
    \E o \in LoaderOps : o.op = "well_cypher" /\ LoaderStep(o)

LoaderCreateEdge ==
    \E o \in LoaderOps : o.op = "create_edge" /\ LoaderStep(o)

NextLoader ==
    \/ LoaderCreateNodes
    \/ LoaderCreateNodesWithProps
    \/ LoaderWellCypher
    \/ LoaderCreateEdge

SpecLoader == InitLoader /\ [][NextLoader]_vars


(***************************************************************************)
(* Properties.                                                             *)
(***************************************************************************)
BagNames(bags) == {bags[k]["name"] : k \in 1..Len(bags)}

\* every entity name main extracted: the identity sets and the property bags
ExtractedNames ==
    Range(areas) \cup Range(discoveries) \cup Range(drilling_facilities)
        \cup Range(facilities) \cup Range(operators) \cup Range(supply_bases)
        \cup BagNames(licenses_with_properties) \cup BagNames(fields_with_properties)
        \cup BagNames(wells_with_properties) \cup BagNames(wellbore_with_properties)

\* the columns main extracts entity names from
KeyCells ==
    {license_df.rows[i]["prlName"] : i \in 1..Len(license_df.rows)}
        \cup {field_df.rows[i][c] : i \in 1..Len(field_df.rows),
                                    c \in {"fldName", "fldMainSupplyBase"}}
        \cup {well_df.rows[i][c] : i \in 1..Len(well_df.rows),
                                   c \in {"wlbMainArea", "wlbDiscovery", "wlbWell",
                                          "wlbWellboreName", "wlbDrillingFacility",
                                          "wlbFacilityTypeDrilling",
                                          "wlbDrillingOperator"}}

\* C1 as claimed: the value the Cleaner substitutes for absent cells of a
\* string column ("missing") is never the name of an extracted entity.
C1_FillValueNeverExtracted == FILL_STRING \notin ExtractedNames

\* C1 as amended: the value extraction excludes is MISSING_VALUE, the empty
\* string; it is never the name of an extracted entity.
C1_MissingValueNeverExtracted == MISSING_VALUE \notin ExtractedNames

\* all tables are extracted, a key column held an empty string after
\* cleaning, and a value filled in by the Cleaner was extracted as a name
C1_Witness ==
    /\ tables_loaded = 3
    /\ MISSING_VALUE \in KeyCells
    /\ FILL_STRING \in ExtractedNames

\* C2 as claimed: when the connection check fails, no source table has been
\* read, cleaned or extracted.
C2_NoExtractionBeforeAbort == connect_failed => tables_loaded = 0

\* C2 as amended: a failed connection check ends the run with the exception
\* before any node or edge upsert is issued; the three source tables have
\* all been read, cleaned and extracted by then.
C2_NoUpsertAfterFailedConnect ==
    connect_failed =>
        /\ pc = "exited"
        /\ exception
        /\ node_calls = << >>
        /\ well_edge_calls = 0
        /\ field_edge_calls = 0
        /\ submitted = {}
        /\ graph = EmptyGraph
        /\ tables_loaded = 3

C2_Witness == connect_failed /\ pc = "exited" /\ Len(well_df.rows) > 0

\* C4 as claimed: when main has ended and the driver had been created, the
\* driver was closed exactly once.
C4_DriverClosedOnce ==
    (pc = "exited" /\ driver # "none") => (close_calls = 1 /\ driver = "closed")


\* the relationship phase of main is over: lines 176-225 ran to their end
RelationshipsDone == pc \in {"finally", "exited"} /\ ~exception

\* the store holds edge e between nodes named as e says
EdgeStored(g, e) ==
    \E r \in 1..Len(g.rels) :
        /\ g.rels[r].type = e.type
        /\ g.nodes[g.rels[r].src].label = e.label1
        /\ g.nodes[g.rels[r].src].props["name"] = e.value1
        /\ g.nodes[g.rels[r].dst].label = e.label2
        /\ g.nodes[g.rels[r].dst].props["name"] = e.value2

\* the error messages printed: that of the well batch, those of field rows
BatchFailed == \E k \in 1..Len(printed) : printed[k].where = "batch"

FieldFailed(i) ==
    \E k \in 1..Len(printed) : printed[k].where = "field" /\ printed[k].index = i

FieldIndices == 0..(Len(field_df.rows) - 1)

FieldRowEdges(i) ==
    {ManagesEdge(field_df.rows[i + 1]), SupplyBaseEdge(field_df.rows[i + 1])}

WellTypes == {WellRelMerges[k].type : k \in 1..Len(WellRelMerges)}

\* C5 as claimed: every printed relationship failure names the row it came
\* from, and every row without a failure of its own has its relationships
\* in the store, in the well table and in the field table alike.
C5_PerRowFailuresEverywhere ==
    RelationshipsDone =>
        /\ \A k \in 1..Len(printed) : printed[k].index >= 0
        /\ \A i \in 1..Len(well_df.rows) :
            \A e \in WellEdges(<<well_relationship(well_df.rows[i])>>) :
                EdgeStored(graph, e)
        /\ \A i \in FieldIndices :
            FieldFailed(i) \/ \A e \in FieldRowEdges(i) : EdgeStored(graph, e)

\* C5 as amended: a failure of a field row is caught and printed with that
\* row's index, and every other field row is still submitted and stored; a
\* failure of the well batch is caught as a whole, printed without a row
\* index, leaves none of the batch's relationships in the store, and the
\* field rows are still processed.  The messages printed as the failures
\* happen are the only report.
C5_FieldRowsIsolatedBatchWhole ==
    RelationshipsDone =>
        /\ \A k \in 1..Len(printed) :
            \/ printed[k].where = "batch" /\ printed[k].index = -1
            \/ printed[k].where = "field" /\ printed[k].index \in FieldIndices
        /\ \A i \in FieldIndices :
            /\ ManagesEdge(field_df.rows[i + 1]) \in submitted
            /\ FieldFailed(i) \/ \A e \in FieldRowEdges(i) : EdgeStored(graph, e)
        /\ BatchFailed =>
            \A r \in 1..Len(graph.rels) : graph.rels[r].type \notin WellTypes
        /\ ~BatchFailed =>
            \A e \in WellEdges(well_relationships_of(well_df)) : EdgeStored(graph, e)

\* the first field row failed, the second was still stored, and the well
\* batch failed as a whole
C5_Witness ==
    /\ RelationshipsDone
    /\ Len(field_df.rows) = 2
    /\ FieldFailed(0)
    /\ ~FieldFailed(1)
    /\ \A e \in FieldRowEdges(1) : EdgeStored(graph, e)
    /\ BatchFailed
    /\ Len(well_df.rows) = 2

\* a value standing for a missing cell
IsSentinel(c) == c \in {MISSING_VALUE, FILL_STRING, FILL_NUMBER}

\* C6: every row of the cleaned well table has all eight relations of the
\* fixed list handed to the store, and every row of the cleaned field table
\* its MANAGES and HAS_SUPPLYBASE_OF, whatever the endpoint values are; what
\* the store did not reject is in the graph, with a node named after the
\* sentinel where an endpoint is missing.
C6_EdgesEmittedUnconditionally ==
    RelationshipsDone =>
        /\ \A i \in 1..Len(well_df.rows) :
            LET es == WellEdges(<<well_relationship(well_df.rows[i])>>)
            IN /\ {e.type : e \in es} = WellTypes
               /\ es \subseteq submitted
               /\ ~BatchFailed => \A e \in es : EdgeStored(graph, e)
        /\ \A i \in FieldIndices :
            ~FieldFailed(i) =>
                /\ FieldRowEdges(i) \subseteq submitted
                /\ \A e \in FieldRowEdges(i) : EdgeStored(graph, e)

\* a well row whose wlbDrillingFacility is missing has its HAS_WELLBORE edge
\* and a HAS_DRILLING_FACILITY edge to the sentinel-named node in the store,
\* and a field row whose supply base is missing its HAS_SUPPLYBASE_OF edge
C6_Witness ==
    /\ RelationshipsDone
    /\ \E i \in 1..Len(well_df.rows) :
        LET row == well_df.rows[i]
        IN /\ row["wlbDrillingFacility"] = FILL_STRING
           /\ row["wlbDiscovery"] = MISSING_VALUE
           /\ EdgeStored(graph, Edge("Well", row["wlbWell"], "Wellbore",
                                     row["wlbWellboreName"], "HAS_WELLBORE"))
           /\ EdgeStored(graph, Edge("Wellbore", row["wlbWellboreName"],
                                     "DrillingFacility", FILL_STRING,
                                     "HAS_DRILLING_FACILITY"))
    /\ \E i \in FieldIndices :
        /\ IsSentinel(field_df.rows[i + 1]["fldMainSupplyBase"])
        /\ EdgeStored(graph, SupplyBaseEdge(field_df.rows[i + 1]))

\* C7 as claimed: each table's edges are submitted with one call.
C7_OneCallPerTable == well_edge_calls <= 1 /\ field_edge_calls <= 1

\* C7 as amended: the edges of the well table are submitted with exactly one
\* call, however many rows it has; the edges of the field table are submitted
\* one call per edge, two per row (one when the row's first call raises).
C7_WellBatchedFieldPerEdge ==
    /\ well_edge_calls <= 1
    /\ field_edge_calls + Cardinality({i \in FieldIndices : i < index /\ FieldFailed(i)})
            >= 2 * Cardinality({i \in FieldIndices : i < index})
    /\ field_edge_calls <= 2 * Cardinality({i \in FieldIndices : i < index})
    /\ RelationshipsDone =>
        /\ well_edge_calls = 1
        /\ index = Len(field_df.rows)
        /\ field_edge_calls >= Len(field_df.rows)

C7_Witness ==
    /\ RelationshipsDone
    /\ Len(well_df.rows) = 2
    /\ well_edge_calls = 1
    /\ Len(field_df.rows) = 2
    /\ field_edge_calls = 4

\* C9: an edge is submitted only after all the node upserts of lines 165-174
\* have been called, in order, and returned; once a node upsert has raised,
\* no edge is submitted.
C9_NodesBeforeEdges ==
    /\ (well_edge_calls + field_edge_calls > 0 \/ submitted # {}) =>
        /\ node_calls = [k \in 1..LastNodeUpsert |-> k]
        /\ ~node_raised
    /\ node_raised =>
        /\ well_edge_calls = 0
        /\ field_edge_calls = 0
        /\ submitted = {}
        /\ graph.rels = << >>

C9_Witness ==
    /\ well_edge_calls = 1
    /\ field_edge_calls > 0
    /\ Len(node_calls) = LastNodeUpsert
    /\ Len(graph.rels) > 0


\* at most one node per (label, name)
NodesUnique(g) ==
    \A i, j \in 1..Len(g.nodes) :
        (/\ g.nodes[i].label = g.nodes[j].label
         /\ g.nodes[i].props["name"] = g.nodes[j].props["name"]) => i = j

\* at most one relationship per (source node, target node, type)
RelsUnique(g) ==
    \A r, q \in 1..Len(g.rels) :
        (/\ g.rels[r].src = g.rels[q].src
         /\ g.rels[r].dst = g.rels[q].dst
         /\ g.rels[r].type = g.rels[q].type) => r = q

\* C3: after any sequence of loader operations the store holds at most one
\* node per (label, name) and at most one relationship per (source, target,
\* type), and applying any loader operation twice with the same input gives
\* the graph that applying it once gives.
C3_LoaderIdempotent ==
    /\ NodesUnique(graph)
    /\ RelsUnique(graph)
    /\ \A o \in LoaderOps :
        \A once \in {ApplyOp(graph, o)} : ApplyOp(once, o) = once

\* an operation was applied twice in a row to a store that holds nodes with
\* properties and a relationship
C3_Witness ==
    /\ repeated
    /\ last_op.op = "well_cypher"
    /\ Len(last_op.rows) = 2
    /\ Len(graph.rels) > Len(WellRelMerges)

(***************************************************************************)
(* Properties of the extraction functions.                                 *)
(***************************************************************************)
ExFunctions == {"get_properties", "get_well_properties", "get_wellbore_properties"}

\* the distinct identity values of the key column of the cleaned table
ExIdentities ==
    {ex_df.rows[i][ex_call.key_col] : i \in 1..Len(ex_df.rows)} \ {MISSING_VALUE}

\* the first row, in table order, that carries identity id
ExFirstRow(id) ==
    CHOOSE i \in 1..Len(ex_df.rows) :
        /\ ex_df.rows[i][ex_call.key_col] = id
        /\ \A j \in 1..(i - 1) : ex_df.rows[j][ex_call.key_col] # id

\* the requested property columns the table has
ExPresentColumns == Range(ex_property_columns) \cap Range(ex_df.columns)

ExAbsentRequested == Range(ex_property_columns) \ Range(ex_df.columns) # {}

\* one bag per identity, named after it, projected from its first row
ExOneBagPerIdentity ==
    /\ Len(ex_output) = Cardinality(ExIdentities)
    /\ \A id \in ExIdentities :
        \E b \in 1..Len(ex_output) :
            /\ ex_output[b]["name"] = id
            /\ \A c \in 1..Len(ex_output) : ex_output[c]["name"] = id => c = b
            /\ DOMAIN ex_output[b] = ExPresentColumns \cup {"name"}
            /\ \A k \in ExPresentColumns :
                ex_output[b][k] = ex_df.rows[ExFirstRow(id)][k]

\* C8: a call of get_properties, get_well_properties or
\* get_wellbore_properties that returns gives, for every distinct identity
\* of the key column, exactly one property bag, whose name is that identity
\* and whose properties are those of the first row carrying it.
C8_OneBagPerIdentityFromFirstRow ==
    (ex_call.fn \in ExFunctions /\ ~ex_call.raised) => ExOneBagPerIdentity

\* two rows carry the same well name with different wlbStatus, and one bag
\* was returned for that well
C8_Witness ==
    /\ ex_call.fn = "get_well_properties"
    /\ Len(ex_df.rows) = 2
    /\ ex_df.rows[1]["wlbWell"] = ex_df.rows[2]["wlbWell"]
    /\ ex_df.rows[1]["wlbStatus"] # ex_df.rows[2]["wlbStatus"]
    /\ Len(ex_output) = 1

\* C10 as claimed: when a requested property column is absent from the
\* table, each of the three functions returns, without raising, one bag per
\* identity from which that column is left out.
C10_AbsentColumnOmitted ==
    (ex_call.fn \in ExFunctions /\ ExAbsentRequested) =>
        /\ ~ex_call.raised
        /\ ExOneBagPerIdentity

=============================================================================
